---- MODULE Spec2Model ----
(***************************************************************************)
(* Thread-local allocator attachment of snmalloc (src/mem/threadalloc.h):  *)
(* the per-thread slot, lazy replacement of the global placeholder, and    *)
(* the teardown strategies ThreadAllocLibcCleanup (exit, called from       *)
(* _malloc_thread_cleanup), ThreadAllocThreadDestructor (inner_release,    *)
(* run by the thread_local OnDestruct object "tidier") and                 *)
(* ThreadAllocUntypedWrapper (host-managed slot).                          *)
(*                                                                         *)
(* Pointers are integers: Null, GlobalPlaceHolder, and the allocators the  *)
(* pool has created, numbered 1..created.  The allocator pool              *)
(* (current_alloc_pool, globalalloc.h) is modelled by its contract.        *)
(*                                                                         *)
(* The build options that select ThreadAlloc are part of the state, and    *)
(* PalSpec models PALApple::zero and PALApple::reserve (src/pal/           *)
(* pal_apple.h) over a small byte-addressed address space.                 *)
(***************************************************************************)
EXTENDS Integers, FiniteSets, Sequences, TLC

\* ---- bounds ----
NThreads == 2
MaxTeardownAllocs == 1

Threads == 1..NThreads

\* ---- pointer values ----
GlobalPlaceHolder == 0
Null == 0 - 1

Strategies == {"cleanup", "destructor", "external"}

\* ---- build options (threadalloc.h:5-8, 173-189) ----
BuildOptions == {"SNMALLOC_USE_THREAD_CLEANUP",
                 "SNMALLOC_USE_THREAD_DESTRUCTOR",
                 "SNMALLOC_EXTERNAL_THREAD_ALLOC"}

VARIABLES
  defined,     \* the build options that are defined
  mem,         \* mem[a]: the byte at address a (0, or 1 for any other value)
  mapped,      \* pages of the address space that are mapped read/write
  palstate,    \* "idle", "run", or "dead" once the process has been ended
  ndebug,      \* the build defines NDEBUG: assert() checks nothing
  palact,      \* the last PAL call and its outcome
  strategy,    \* which class the build selected as ThreadAlloc
  slot,        \* slot[t]: the thread_local Alloc* behind ThreadAlloc::get()
  pc,          \* pc[t]: position of thread t in its life
  tidier,      \* tidier[t]: state of the thread_local OnDestruct object
  per_thread,  \* per_thread[t]: local copy of the pointer handed to release
  idle,        \* allocators the pool holds for reuse
  created,     \* number of allocators the pool has created
  held,        \* held[t]: allocators t acquired and has not released
  acquires,    \* acquires[t]: calls of Pool.acquire by t
  releases,    \* releases[t]: calls of Pool.release by t
  allocated,   \* allocated[t]: t allocated before its teardown began
  tdAllocs,    \* tdAllocs[t]: allocations of t during its teardown
  act          \* the last step taken

vars == <<strategy, slot, pc, tidier, per_thread, idle, created, held,
          acquires, releases, allocated, tdAllocs, act>>

palVars == <<mem, mapped, palstate, ndebug, palact>>

\* ---- the address space of the PAL model ----
\* OS_PAGE_SIZE is scaled down to two bytes.
OS_PAGE_SIZE == 2
MemPages == 2

Pages == 0..(MemPages - 1)
Addrs == 0..(MemPages * OS_PAGE_SIZE - 1)
PageOf(a) == a \div OS_PAGE_SIZE
MAP_FAILED == 0 - 1

PalCall(op, flag, p, size, remap, ret, returned) ==
  [op |-> op, flag |-> flag, p |-> p, size |-> size, remap |-> remap,
   ret |-> ret, returned |-> returned]

NoPalCall == PalCall("none", FALSE, 0, 0, "no", 0, FALSE)

allVars == <<vars, defined, palVars>>

RECURSIVE SumUpTo(_, _)
SumUpTo(f, n) == IF n = 0 THEN 0 ELSE f[n] + SumUpTo(f, n - 1)

\* Allocations made during teardown so far, over all threads.
TeardownAllocs == SumUpTo(tdAllocs, NThreads)

IsReal(p) == (p # GlobalPlaceHolder) /\ (p # Null)

Step(t, op, existing, ret, on) ==
  [t |-> t, op |-> op, existing |-> existing, ret |-> ret, on |-> on]

\* ---- the allocator pool (contract of acquire / release) ----
PoolAcquire(h) ==
  /\ h \in (IF idle # {} THEN idle ELSE {created + 1})
  /\ idle' = idle \ {h}
  /\ created' = IF h > created THEN h ELSE created

PoolRelease(h) ==
  /\ idle' = idle \cup {h}
  /\ UNCHANGED created

Outstanding == created - Cardinality(idle \cap (1..created))

\* ---- ThreadAlloc::get ----
get(t) == slot[t]

\* A register_cleanup that registers nothing under any strategy.
register_cleanup_nothing(t) == UNCHANGED tidier

\* A register_cleanup that registers the tidier whatever ThreadAlloc is.
register_cleanup_any_strategy(t) ==
  IF tidier[t] = "live"
  THEN UNCHANGED tidier
  ELSE tidier' = [tidier EXCEPT ![t] = "live"]

\* ---- ThreadAlloc::register_cleanup ----
\* ThreadAllocThreadDestructor: passing the definition of the thread_local
\* tidier constructs it once and registers its destructor.  Passing it again
\* after it has been destroyed is undefined: the build either skips it (the
\* guard is still set) or constructs and registers it again.
register_cleanup(t) ==
  IF strategy = "destructor"
  THEN CASE tidier[t] = "none" -> tidier' = [tidier EXCEPT ![t] = "live"]
         [] tidier[t] = "live" -> UNCHANGED tidier
         [] tidier[t] = "dead" ->
              \E o \in {"dead", "live"} : tidier' = [tidier EXCEPT ![t] = o]
  ELSE UNCHANGED tidier

\* A slow path that acquires without looking at the slot first.
lazy_replacement_slow_unchecked(t, r) ==
  /\ PoolAcquire(r)
  /\ slot' = [slot EXCEPT ![t] = r]
  /\ held' = [held EXCEPT ![t] = @ \cup {r}]
  /\ acquires' = [acquires EXCEPT ![t] = @ + 1]
  /\ register_cleanup(t)

\* A slow path that returns the acquired allocator without storing it.
lazy_replacement_slow_not_stored(t, r) ==
  IF (get(t) # Null) /\ (get(t) # GlobalPlaceHolder)
  THEN /\ r = get(t)
       /\ UNCHANGED <<slot, idle, created, tidier, held, acquires>>
  ELSE /\ PoolAcquire(r)
       /\ UNCHANGED slot
       /\ held' = [held EXCEPT ![t] = @ \cup {r}]
       /\ acquires' = [acquires EXCEPT ![t] = @ + 1]
       /\ register_cleanup(t)

\* ---- lazy_replacement_slow: r is the returned pointer ----
lazy_replacement_slow(t, r) ==
  IF (get(t) # Null) /\ (get(t) # GlobalPlaceHolder)
  THEN /\ r = get(t)
       /\ UNCHANGED <<slot, idle, created, tidier, held, acquires>>
  ELSE /\ PoolAcquire(r)
       /\ slot' = [slot EXCEPT ![t] = r]
       /\ held' = [held EXCEPT ![t] = @ \cup {r}]
       /\ acquires' = [acquires EXCEPT ![t] = @ + 1]
       /\ register_cleanup(t)

\* A lazy_replacement without the bail-out for a caller that is not the
\* placeholder.
lazy_replacement_always_slow(t, existing, r) == lazy_replacement_slow(t, r)

\* ---- lazy_replacement(existing): r is the returned pointer ----
lazy_replacement(t, existing, r) ==
  IF existing # GlobalPlaceHolder
  THEN /\ r = Null
       /\ UNCHANGED <<slot, idle, created, tidier, held, acquires>>
  ELSE lazy_replacement_slow(t, r)

\* The last step was an allocation that called Pool.acquire.
Acquired == act.op \in {"alloc", "dtor_alloc", "reentrant_alloc"} /\ act.acq

\* Pointers a call can return in the current state.
Ptrs == {Null, GlobalPlaceHolder} \cup (1..(created + 1)) \cup idle

\* The allocator an allocation starts on: the one the slot references, or
\* the placeholder itself (a call that began on the placeholder).
Existing(t) == {GlobalPlaceHolder} \cup ({get(t)} \ {Null})

\* One allocation by thread t: the engine takes a slow path, calls
\* lazy_replacement on the allocator it runs on, and continues on the
\* returned allocator if there is one.
Allocate(t, op) ==
  \E e \in Existing(t) : \E r \in Ptrs :
    /\ lazy_replacement(t, e, r)
    /\ act' = Step(t, op, e, r, IF r # Null THEN r ELSE e)
                @@ [acq |-> acquires'[t] # acquires[t]]

\* A get() that creates the thread's allocator when there is none.
Get_creating(t) ==
  /\ pc[t] \in {"run", "dtors", "cleaned"}
  /\ \E r \in Ptrs :
       /\ lazy_replacement_slow(t, r)
       /\ act' = Step(t, "get", Null, r, Null)
  /\ UNCHANGED <<defined, palVars>>
  /\ UNCHANGED <<strategy, pc, per_thread, releases, allocated, tdAllocs>>

\* ---- steps of a running thread ----
Get(t) ==
  /\ pc[t] \in {"run", "dtors", "cleaned"}
  /\ act' = Step(t, "get", Null, get(t), Null)
  /\ UNCHANGED <<defined, palVars>>
  /\ UNCHANGED <<strategy, slot, pc, tidier, per_thread, idle, created, held,
                 acquires, releases, allocated, tdAllocs>>

Alloc(t) ==
  /\ pc[t] = "run"
  /\ Allocate(t, "alloc")
  /\ allocated' = [allocated EXCEPT ![t] = TRUE]
  /\ UNCHANGED <<defined, palVars>>
  /\ UNCHANGED <<strategy, pc, per_thread, releases, tdAllocs>>

ThreadExit(t) ==
  /\ pc[t] = "run"
  /\ pc' = [pc EXCEPT ![t] = "dtors"]
  /\ act' = Step(t, "thread_exit", Null, Null, Null)
  /\ UNCHANGED <<defined, palVars>>
  /\ UNCHANGED <<strategy, slot, tidier, per_thread, idle, created, held,
                 acquires, releases, allocated, tdAllocs>>

\* Another thread-local destructor of the thread allocates.
DtorAlloc(t) ==
  /\ pc[t] = "dtors"
  /\ TeardownAllocs < MaxTeardownAllocs
  /\ Allocate(t, "dtor_alloc")
  /\ tdAllocs' = [tdAllocs EXCEPT ![t] = @ + 1]
  /\ UNCHANGED <<defined, palVars>>
  /\ UNCHANGED <<strategy, pc, per_thread, releases, allocated>>

\* ---- ThreadAllocThreadDestructor::inner_release, run by ~OnDestruct ----
InnerReleaseBegin(t) ==
  /\ strategy = "destructor"
  /\ pc[t] = "dtors"
  /\ tidier[t] = "live"
  /\ tidier' = [tidier EXCEPT ![t] = "dead"]
  /\ IF get(t) # GlobalPlaceHolder
     THEN /\ pc' = [pc EXCEPT ![t] = "rel_pre"]
          /\ per_thread' = [per_thread EXCEPT ![t] = get(t)]
     ELSE UNCHANGED <<pc, per_thread>>
  /\ act' = Step(t, "inner_release", Null, Null, Null)
  /\ UNCHANGED <<defined, palVars>>
  /\ UNCHANGED <<strategy, slot, idle, created, held, acquires, releases,
                 allocated, tdAllocs>>

InnerReleaseReset(t) ==
  /\ strategy = "destructor"
  /\ pc[t] = "rel_post"
  /\ slot' = [slot EXCEPT ![t] = GlobalPlaceHolder]
  /\ per_thread' = [per_thread EXCEPT ![t] = Null]
  /\ pc' = [pc EXCEPT ![t] = "dtors"]
  /\ act' = Step(t, "inner_release_end", Null, Null, Null)
  /\ UNCHANGED <<defined, palVars>>
  /\ UNCHANGED <<strategy, tidier, idle, created, held, acquires,
                 releases, allocated, tdAllocs>>

\* An exit that tests the slot for null only.
LibcExitBegin_null_test_only(t) ==
  /\ strategy = "cleanup"
  /\ pc[t] = "dtors"
  /\ per_thread' = [per_thread EXCEPT ![t] = get(t)]
  /\ IF get(t) # Null
     THEN pc' = [pc EXCEPT ![t] = "rel_pre"]
     ELSE pc' = [pc EXCEPT ![t] = "cleaned"]
  /\ act' = Step(t, "exit", Null, Null, Null)
  /\ UNCHANGED <<defined, palVars>>
  /\ UNCHANGED <<strategy, slot, tidier, idle, created, held, acquires,
                 releases, allocated, tdAllocs>>

\* ---- ThreadAllocLibcCleanup::exit, called by _malloc_thread_cleanup ----
LibcExitBegin(t) ==
  /\ strategy = "cleanup"
  /\ pc[t] = "dtors"
  /\ per_thread' = [per_thread EXCEPT ![t] = get(t)]
  /\ IF (get(t) # GlobalPlaceHolder) /\ (get(t) # Null)
     THEN pc' = [pc EXCEPT ![t] = "rel_pre"]
     ELSE pc' = [pc EXCEPT ![t] = "cleaned"]
  /\ act' = Step(t, "exit", Null, Null, Null)
  /\ UNCHANGED <<defined, palVars>>
  /\ UNCHANGED <<strategy, slot, tidier, idle, created, held, acquires,
                 releases, allocated, tdAllocs>>

\* An exit whose per_thread is a reference to the slot (auto*&).
LibcExitEnd_by_reference(t) ==
  /\ strategy = "cleanup"
  /\ pc[t] = "rel_post"
  /\ per_thread' = [per_thread EXCEPT ![t] = Null]
  /\ slot' = [slot EXCEPT ![t] = Null]
  /\ pc' = [pc EXCEPT ![t] = "cleaned"]
  /\ act' = Step(t, "exit_end", Null, Null, Null)
  /\ UNCHANGED <<defined, palVars>>
  /\ UNCHANGED <<strategy, tidier, idle, created, held, acquires,
                 releases, allocated, tdAllocs>>

\* per_thread is a copy of the slot's pointer (auto*), not a reference to it.
LibcExitEnd(t) ==
  /\ strategy = "cleanup"
  /\ pc[t] = "rel_post"
  /\ per_thread' = [per_thread EXCEPT ![t] = Null]
  /\ pc' = [pc EXCEPT ![t] = "cleaned"]
  /\ act' = Step(t, "exit_end", Null, Null, Null)
  /\ UNCHANGED <<defined, palVars>>
  /\ UNCHANGED <<strategy, slot, tidier, idle, created, held, acquires,
                 releases, allocated, tdAllocs>>

\* ---- current_alloc_pool()->release(p), called by either teardown ----
\* The pool takes the allocator back at some point of the call.
ReleaseCall(t) ==
  /\ pc[t] = "rel_pre"
  /\ PoolRelease(per_thread[t])
  /\ held' = [held EXCEPT ![t] = @ \ {per_thread[t]}]
  /\ releases' = [releases EXCEPT ![t] = @ + 1]
  /\ pc' = [pc EXCEPT ![t] = "rel_post"]
  /\ act' = Step(t, "release", per_thread[t], Null, Null)
  /\ UNCHANGED <<defined, palVars>>
  /\ UNCHANGED <<strategy, slot, tidier, per_thread, acquires, allocated,
                 tdAllocs>>

\* An allocation made while the release call is in progress.
ReentrantAlloc(t) ==
  /\ pc[t] \in {"rel_pre", "rel_post"}
  /\ TeardownAllocs < MaxTeardownAllocs
  /\ Allocate(t, "reentrant_alloc")
  /\ tdAllocs' = [tdAllocs EXCEPT ![t] = @ + 1]
  /\ UNCHANGED <<defined, palVars>>
  /\ UNCHANGED <<strategy, pc, per_thread, releases, allocated>>

\* The thread is gone once its teardown has run.
ThreadGone(t) ==
  /\ \/ pc[t] = "cleaned"
     \/ pc[t] = "dtors" /\ strategy = "destructor" /\ tidier[t] # "live"
     \/ pc[t] = "dtors" /\ strategy = "external"
  /\ pc' = [pc EXCEPT ![t] = "gone"]
  /\ act' = Step(t, "gone", Null, Null, Null)
  /\ UNCHANGED <<defined, palVars>>
  /\ UNCHANGED <<strategy, slot, tidier, per_thread, idle, created, held,
                 acquires, releases, allocated, tdAllocs>>

\* A selection that looks at SNMALLOC_EXTERNAL_THREAD_ALLOC first.
ThreadAlloc_external_first(D) ==
  IF {"SNMALLOC_USE_THREAD_DESTRUCTOR", "SNMALLOC_USE_THREAD_CLEANUP"}
       \subseteq D
  THEN "error"
  ELSE IF "SNMALLOC_EXTERNAL_THREAD_ALLOC" \in D THEN "external"
  ELSE IF "SNMALLOC_USE_THREAD_CLEANUP" \in D THEN "cleanup"
  ELSE "destructor"

\* ---- the class the preprocessor selects as ThreadAlloc ----
\* "error" is the #error of lines 5-8: there is no build.
ThreadAlloc(D) ==
  IF {"SNMALLOC_USE_THREAD_DESTRUCTOR", "SNMALLOC_USE_THREAD_CLEANUP"}
       \subseteq D
  THEN "error"
  ELSE IF "SNMALLOC_USE_THREAD_CLEANUP" \in D THEN "cleanup"
  ELSE IF "SNMALLOC_USE_THREAD_DESTRUCTOR" \in D THEN "destructor"
  ELSE IF "SNMALLOC_EXTERNAL_THREAD_ALLOC" \in D THEN "external"
  ELSE "destructor"

\* No PAL call is in progress and nothing is mapped.
PalQuiet ==
  /\ mem = [a \in Addrs |-> 0]
  /\ mapped = {}
  /\ palstate = "idle"
  /\ ndebug = FALSE
  /\ palact = NoPalCall

Init ==
  /\ defined \in SUBSET BuildOptions
  /\ strategy = ThreadAlloc(defined)
  /\ slot \in [Threads -> {GlobalPlaceHolder, Null}]
  /\ \A t \in Threads : strategy # "external" => slot[t] = GlobalPlaceHolder
  /\ pc = [t \in Threads |-> IF strategy = "error" THEN "nobuild" ELSE "run"]
  /\ PalQuiet
  /\ tidier = [t \in Threads |-> "none"]
  /\ per_thread = [t \in Threads |-> Null]
  /\ idle = {}
  /\ created = 0
  /\ held = [t \in Threads |-> {}]
  /\ acquires = [t \in Threads |-> 0]
  /\ releases = [t \in Threads |-> 0]
  /\ allocated = [t \in Threads |-> FALSE]
  /\ tdAllocs = [t \in Threads |-> 0]
  /\ act = Step(0, "init", Null, Null, Null)

Next ==
  \E t \in Threads :
    \/ Get(t)
    \/ Alloc(t)
    \/ ThreadExit(t)
    \/ DtorAlloc(t)
    \/ InnerReleaseBegin(t)
    \/ InnerReleaseReset(t)
    \/ LibcExitBegin(t)
    \/ LibcExitEnd(t)
    \/ ReleaseCall(t)
    \/ ReentrantAlloc(t)
    \/ ThreadGone(t)

Spec == Init /\ [][Next]_allVars

TypeOK ==
  /\ strategy \in Strategies \cup {"error"}
  /\ \A t \in Threads : slot[t] \in Ptrs
  /\ \A t \in Threads :
       pc[t] \in {"nobuild", "run", "dtors", "rel_pre", "rel_post",
                  "cleaned", "gone"}
  /\ \A t \in Threads : tidier[t] \in {"none", "live", "dead"}
  /\ idle \subseteq 1..created

\* ======================= PALApple =======================

Range(p, size) == p..(p + size - 1)
PagesOf(p, size) == {PageOf(a) : a \in Range(p, size)}
BytesOf(P) == {a \in Addrs : PageOf(a) \in P}

\* bits::is_aligned_block<OS_PAGE_SIZE>(p, size)
is_aligned_block(p, size) ==
  (p % OS_PAGE_SIZE = 0) /\ (size % OS_PAGE_SIZE = 0)

\* mmap(p, size, ..., MAP_PRIVATE | MAP_ANONYMOUS | MAP_FIXED, ...) can
\* succeed only for a page-aligned p and a non-zero length inside the
\* address space; it maps whole pages.
MmapFixedPossible(p, size) ==
  /\ p % OS_PAGE_SIZE = 0
  /\ size > 0
  /\ Range(p, size) \subseteq Addrs

\* bzero(p, size)
bzero(p, size) ==
  mem' = [a \in Addrs |-> IF a \in Range(p, size) THEN 0 ELSE mem[a]]

\* A zero that does not look at what mmap returned.
zero_ignoring_mmap_result(page_aligned, p, size, ok) ==
  IF page_aligned \/ is_aligned_block(p, size)
  THEN IF ~is_aligned_block(p, size) /\ ~ndebug
       THEN /\ palstate' = "dead"
            /\ palact' = PalCall("zero", page_aligned, p, size, "no", 0, FALSE)
            /\ UNCHANGED <<mem, mapped>>
       ELSE /\ IF ok /\ MmapFixedPossible(p, size)
               THEN /\ mem' = [a \in Addrs |->
                         IF a \in BytesOf(PagesOf(p, size)) THEN 0 ELSE mem[a]]
                    /\ mapped' = mapped \cup PagesOf(p, size)
                    /\ palact' =
                         PalCall("zero", page_aligned, p, size, "ok", 0, TRUE)
               ELSE /\ UNCHANGED <<mem, mapped>>
                    /\ palact' =
                         PalCall("zero", page_aligned, p, size, "failed", 0,
                                 TRUE)
            /\ UNCHANGED palstate
  ELSE /\ bzero(p, size)
       /\ palact' = PalCall("zero", page_aligned, p, size, "no", 0, TRUE)
       /\ UNCHANGED <<mapped, palstate>>

\* A zero that always takes the remap path.
zero_always_remap(page_aligned, p, size, ok) ==
  /\ IF ok /\ MmapFixedPossible(p, size)
     THEN /\ mem' = [a \in Addrs |->
               IF a \in BytesOf(PagesOf(p, size)) THEN 0 ELSE mem[a]]
          /\ mapped' = mapped \cup PagesOf(p, size)
          /\ palact' = PalCall("zero", page_aligned, p, size, "ok", 0, TRUE)
     ELSE /\ bzero(p, size)
          /\ UNCHANGED mapped
          /\ palact' =
               PalCall("zero", page_aligned, p, size, "failed", 0, TRUE)
  /\ UNCHANGED palstate

\* ---- PALApple::zero<page_aligned>(p, size); ok: the OS grants the mmap ----
zero(page_aligned, p, size, ok) ==
  IF page_aligned \/ is_aligned_block(p, size)
  THEN IF ~is_aligned_block(p, size) /\ ~ndebug
       THEN \* the assert of line 34 ends the process
            /\ palstate' = "dead"
            /\ palact' = PalCall("zero", page_aligned, p, size, "no", 0, FALSE)
            /\ UNCHANGED <<mem, mapped>>
       ELSE /\ IF ok /\ MmapFixedPossible(p, size)
               THEN /\ mem' = [a \in Addrs |->
                         IF a \in BytesOf(PagesOf(p, size)) THEN 0 ELSE mem[a]]
                    /\ mapped' = mapped \cup PagesOf(p, size)
                    /\ palact' =
                         PalCall("zero", page_aligned, p, size, "ok", 0, TRUE)
               ELSE /\ bzero(p, size)
                    /\ UNCHANGED mapped
                    /\ palact' =
                         PalCall("zero", page_aligned, p, size, "failed", 0,
                                 TRUE)
            /\ UNCHANGED palstate
  ELSE /\ bzero(p, size)
       /\ palact' = PalCall("zero", page_aligned, p, size, "no", 0, TRUE)
       /\ UNCHANGED <<mapped, palstate>>

\* Page-aligned addresses where mmap(nullptr, size, ...) can place a new
\* mapping: the pages it needs are inside the address space and free.
FreeStarts(size) ==
  {p \in Addrs :
     /\ p % OS_PAGE_SIZE = 0
     /\ size > 0
     /\ Range(p, size) \subseteq Addrs
     /\ PagesOf(p, size) \cap mapped = {}}

\* A reserve that hands mmap's result to its caller unchecked.
reserve_unchecked(committed, size, p) ==
  IF p = MAP_FAILED
  THEN /\ palact' = PalCall("reserve", committed, p, size, "no", p, TRUE)
       /\ UNCHANGED <<mem, mapped, palstate>>
  ELSE /\ mapped' = mapped \cup PagesOf(p, size)
       /\ palact' = PalCall("reserve", committed, p, size, "no", p, TRUE)
       /\ UNCHANGED <<mem, palstate>>

\* ---- PALApple::reserve<committed>(size); p: what mmap returned ----
reserve(committed, size, p) ==
  IF p = MAP_FAILED
  THEN \* error("Out of memory") ends the process
       /\ palstate' = "dead"
       /\ palact' = PalCall("reserve", committed, p, size, "no", p, FALSE)
       /\ UNCHANGED <<mem, mapped>>
  ELSE /\ mapped' = mapped \cup PagesOf(p, size)
       /\ palact' = PalCall("reserve", committed, p, size, "no", p, TRUE)
       /\ UNCHANGED <<mem, palstate>>

\* ---- steps of the PAL's caller ----
PalZero ==
  /\ palstate = "run"
  /\ \E page_aligned \in BOOLEAN, p \in Addrs, size \in 0..Cardinality(Addrs),
        ok \in BOOLEAN :
       /\ Range(p, size) \subseteq BytesOf(mapped)
       /\ zero(page_aligned, p, size, ok)
  /\ UNCHANGED <<vars, defined, ndebug>>

PalReserve ==
  /\ palstate = "run"
  /\ \E committed \in BOOLEAN, size \in 0..Cardinality(Addrs) :
       \E p \in FreeStarts(size) \cup {MAP_FAILED} :
         reserve(committed, size, p)
  /\ UNCHANGED <<vars, defined, ndebug>>

\* The caller writes a non-zero byte into memory it has mapped.
PalStore ==
  /\ palstate = "run"
  /\ \E a \in BytesOf(mapped) :
       /\ mem[a] = 0
       /\ mem' = [mem EXCEPT ![a] = 1]
       /\ palact' = PalCall("store", FALSE, a, 1, "no", 0, TRUE)
  /\ UNCHANGED <<vars, defined, mapped, palstate, ndebug>>

PalInit ==
  /\ defined = {}
  /\ strategy = ThreadAlloc(defined)
  /\ slot = [t \in Threads |-> GlobalPlaceHolder]
  /\ pc = [t \in Threads |-> "run"]
  /\ tidier = [t \in Threads |-> "none"]
  /\ per_thread = [t \in Threads |-> Null]
  /\ idle = {}
  /\ created = 0
  /\ held = [t \in Threads |-> {}]
  /\ acquires = [t \in Threads |-> 0]
  /\ releases = [t \in Threads |-> 0]
  /\ allocated = [t \in Threads |-> FALSE]
  /\ tdAllocs = [t \in Threads |-> 0]
  /\ act = Step(0, "init", Null, Null, Null)
  /\ mem = [a \in Addrs |-> 0]
  /\ mapped = {}
  /\ palstate = "run"
  /\ ndebug \in BOOLEAN
  /\ palact = NoPalCall

PalNext == PalZero \/ PalReserve \/ PalStore

PalSpec == PalInit /\ [][PalNext]_allVars

\* ======================= claims =======================

TearsDown == strategy \in {"cleanup", "destructor"}
Alive(t) == pc[t] # "gone"
AllocOps == {"alloc", "dtor_alloc", "reentrant_alloc"}

\* C1: under exit / inner_release teardown, in every reachable state
\* (including those between Pool.release and the update of the slot) no
\* real handle is referenced by the slots of two different threads.
C1_NoHandleInTwoSlots ==
  TearsDown =>
    \A t1, t2 \in Threads :
      (t1 # t2 /\ Alive(t1) /\ Alive(t2) /\ IsReal(slot[t1]))
        => slot[t1] # slot[t2]

\* C2: a thread that allocated, then exited with no allocation during or
\* after its teardown, has called Pool.acquire at least once and Pool.release
\* exactly once for the handle it had checked out; once all threads have
\* exited this way, no handle is outstanding from the Pool.
C2_ExitReleasesExactlyOnce ==
  TearsDown =>
    /\ \A t \in Threads :
         (pc[t] = "gone" /\ allocated[t] /\ tdAllocs[t] = 0)
           => (acquires[t] >= 1 /\ releases[t] = 1 /\ held[t] = {})
    /\ (\A t \in Threads : pc[t] = "gone" /\ tdAllocs[t] = 0)
         => Outstanding = 0

C2_Witness ==
  /\ TearsDown
  /\ \A t \in Threads : pc[t] = "gone" /\ tdAllocs[t] = 0
  /\ \E t \in Threads : allocated[t] /\ acquires[t] = 1 /\ releases[t] = 1

\* C3: under the Local-Destructor strategy a handle acquired by an
\* allocation made after inner_release has run is released again before the
\* thread is gone: a thread that is gone has no handle checked out.
C3_NoLeakAfterTeardownAlloc ==
  strategy = "destructor" =>
    \A t \in Threads : pc[t] = "gone" => held[t] = {}

\* C4: an allocation made while Pool.release is in progress re-promotes the
\* slot to a freshly acquired handle and never runs on the handle that is
\* being released.
C4_ReentrantAllocRepromotes ==
  \A t \in Threads :
    (act.t = t /\ act.op = "reentrant_alloc")
      => /\ act.on # per_thread[t]
         /\ IsReal(slot[t])
         /\ slot[t] # per_thread[t]

\* C5: when a teardown step that released the slot's handle completes (exit
\* or inner_release), the slot references the Placeholder.
C5_ReleasedSlotIsPlaceholder ==
  \A t \in Threads :
    (act.t = t /\ act.op \in {"exit_end", "inner_release_end"})
      => get(t) = GlobalPlaceHolder

\* C6: after ThreadAllocLibcCleanup::exit, a slot that held a real handle
\* has been released and reads as null through get(); a slot that held the
\* Placeholder or null is unchanged and nothing was released.
C6_ExitNullsSlot ==
  strategy = "cleanup" =>
    \A t \in Threads :
      pc[t] = "cleaned" =>
        \/ releases[t] = 1 /\ get(t) = Null
        \/ releases[t] = 0 /\ get(t) = GlobalPlaceHolder /\ acquires[t] = 0

\* C7: Pool.release is never invoked on a handle that is idle in the Pool.
C7_NoDoubleRelease ==
  [][act'.op = "release" => act'.existing \notin idle]_vars

C7_Witness ==
  \E t \in Threads : releases[t] = 2 /\ acquires[t] = 2 /\ tdAllocs[t] > 0

\* C8: every thread has at most one handle checked out from the Pool.
C8_AtMostOneHeld ==
  \A t \in Threads : Cardinality(held[t]) <= 1

C8_Witness ==
  \E t \in Threads :
    /\ act.t = t /\ act.op \in AllocOps
    /\ act.existing = GlobalPlaceHolder
    /\ acquires[t] = 2 /\ releases[t] = 1
    /\ held[t] = {act.ret}

C10_NotPlaceholderReturnsNull ==
  [][(act'.op \in AllocOps /\ act'.existing # GlobalPlaceHolder)
       => /\ act'.ret = Null
          /\ UNCHANGED <<slot, idle, created, tidier, held, acquires,
                         releases>>]_vars

C10_Witness ==
  /\ act.op \in AllocOps
  /\ IsReal(act.existing)
  /\ act.ret = Null
  /\ act.on = slot[act.t]

\* C11: lazy_replacement(existing) with existing equal to the Placeholder
\* returns a real handle that is the slot's content after the call; when
\* the slot held the Placeholder or null before, the handle was acquired
\* from the Pool, is stored in the slot and checked out by the thread, and
\* the teardown is registered for the thread (Local-Destructor: the tidier
\* is live).
C11_PlaceholderCallPromotes ==
  [][(act'.op \in AllocOps /\ act'.existing = GlobalPlaceHolder)
       => /\ IsReal(act'.ret)
          /\ act'.ret = slot'[act'.t]
          /\ ~IsReal(slot[act'.t])
               => /\ act'.acq
                  /\ act'.ret \notin idle'
                  /\ act'.ret \in held'[act'.t]
                  /\ strategy = "destructor" => tidier'[act'.t] = "live"
     ]_allVars

\* C12: with no allocation during or after its teardown a thread calls
\* Pool.acquire at most once, and a lazy_replacement(Placeholder) on an
\* already promoted slot returns the slot's handle without Pool.acquire.
C12_AcquireAtMostOnce ==
  [][act'.op \in AllocOps
       => /\ tdAllocs'[act'.t] = 0 => acquires'[act'.t] <= 1
          /\ (act'.existing = GlobalPlaceHolder /\ IsReal(slot[act'.t]))
               => /\ act'.ret = slot[act'.t]
                  /\ ~act'.acq
                  /\ UNCHANGED <<slot, idle, created, held, acquires>>
     ]_allVars

C12_Witness ==
  /\ act.op = "alloc"
  /\ act.existing = GlobalPlaceHolder
  /\ ~act.acq
  /\ act.ret = slot[act.t]
  /\ acquires[act.t] = 1

C14_PlaceholderNeverPooled ==
  /\ GlobalPlaceHolder \notin idle
  /\ Null \notin idle
  /\ \A t \in Threads : pc[t] = "rel_pre" => IsReal(per_thread[t])

C14_Witness ==
  \E t \in Threads :
    /\ pc[t] = "rel_post"
    /\ releases[t] = 2
    /\ per_thread[t] \in idle

\* C19: under the Externally-Managed strategy a promotion acquires a handle
\* and stores it in the host's slot, and nothing of this layer releases it,
\* resets the slot or registers a cleanup: the handle stays checked out.
C19_ExternalNeverReleases ==
  strategy = "external" =>
    \A t \in Threads :
      /\ releases[t] = 0
      /\ tidier[t] = "none"
      /\ pc[t] \in {"run", "dtors", "gone"}
      /\ (Acquired /\ act.t = t) => act.ret = slot[t]
      /\ acquires[t] >= 1
           => /\ IsReal(slot[t])
              /\ held[t] = {slot[t]}
              /\ slot[t] \notin idle

C19_Witness ==
  \E t \in Threads :
    /\ strategy = "external"
    /\ pc[t] = "gone"
    /\ acquires[t] = 1
    /\ held[t] = {slot[t]}

\* The strategy each build option stands for.
StrategyOf(o) ==
  CASE o = "SNMALLOC_USE_THREAD_CLEANUP" -> "cleanup"
    [] o = "SNMALLOC_USE_THREAD_DESTRUCTOR" -> "destructor"
    [] o = "SNMALLOC_EXTERNAL_THREAD_ALLOC" -> "external"

\* C18 (as stated): exactly one build option must be defined; the build
\* then yields that option's strategy, and every other combination (none,
\* or more than one) is rejected at build time.
C18_ExactlyOneOptionOrRejected ==
  IF Cardinality(defined) = 1
  THEN \A o \in defined : strategy = StrategyOf(o)
  ELSE strategy = "error"

\* C18 (amended): only defining both SNMALLOC_USE_THREAD_CLEANUP and
\* SNMALLOC_USE_THREAD_DESTRUCTOR is rejected at build time; every other
\* combination builds and yields exactly one strategy: that of the single
\* defined option, Local-Destructor when none is defined, and the
\* Runtime-Hook or Local-Destructor strategy when
\* SNMALLOC_EXTERNAL_THREAD_ALLOC is defined along with it.
C18_SelectionByPriority ==
  /\ strategy = "error"
       <=> {"SNMALLOC_USE_THREAD_CLEANUP", "SNMALLOC_USE_THREAD_DESTRUCTOR"}
             \subseteq defined
  /\ strategy # "error" => strategy \in Strategies
  /\ Cardinality(defined) = 1 => \A o \in defined : strategy = StrategyOf(o)
  /\ defined = {} => strategy = "destructor"
  /\ \A o \in {"SNMALLOC_USE_THREAD_CLEANUP", "SNMALLOC_USE_THREAD_DESTRUCTOR"} :
       defined = {o, "SNMALLOC_EXTERNAL_THREAD_ALLOC"}
         => strategy = StrategyOf(o)

C18_Witness ==
  /\ defined = {"SNMALLOC_USE_THREAD_CLEANUP", "SNMALLOC_EXTERNAL_THREAD_ALLOC"}
  /\ strategy = "cleanup"
  /\ \E t \in Threads : act = Step(t, "exit_end", Null, Null, Null)

\* ---- PALApple claims (checked under PalSpec) ----

ZeroCall == palact.op = "zero"
ZeroPrecondition ==
  palact.flag => is_aligned_block(palact.p, palact.size)

\* C15: after a zero call that satisfies the caller's precondition has
\* returned, every byte of [p, p+size) is zero, whichever path was taken.
C15_ZeroedAfterReturn ==
  (ZeroCall /\ palact.returned /\ ZeroPrecondition) =>
    \A a \in Range(palact.p, palact.size) : mem[a] = 0

\* The remap was attempted, the OS refused it, and zero still returned.
C15_Witness ==
  /\ ZeroCall
  /\ palact.returned
  /\ ZeroPrecondition
  /\ palact.remap = "failed"
  /\ palact.size > 0

\* C16 as stated: whatever page_aligned is, a call on a block that is not
\* page-aligned makes no remap attempt and returns through bzero.
C16_MisalignedNeverRemapped ==
  (ZeroCall /\ ~is_aligned_block(palact.p, palact.size)) =>
    (palact.remap = "no" /\ palact.returned)

\* C16 amended: the runtime alignment test guards the remap only when
\* page_aligned is false; with page_aligned true a block that is not aligned
\* ends the process on the assertion, or, with NDEBUG, is handed to mmap.
C16_RemapOnlyWhenPromisedOrAligned ==
  ZeroCall =>
    /\ (palact.remap # "no") =>
         (palact.flag \/ is_aligned_block(palact.p, palact.size))
    /\ (~palact.flag /\ ~is_aligned_block(palact.p, palact.size)) =>
         /\ palact.remap = "no"
         /\ palact.returned
         /\ \A a \in Range(palact.p, palact.size) : mem[a] = 0
    /\ (palact.flag /\ ~is_aligned_block(palact.p, palact.size)) =>
         IF ndebug THEN palact.remap # "no" /\ palact.returned
         ELSE palact.remap = "no" /\ ~palact.returned /\ palstate = "dead"

\* A misaligned block was zeroed with page_aligned false.
C16_Witness ==
  /\ ZeroCall
  /\ ~palact.flag
  /\ ~is_aligned_block(palact.p, palact.size)
  /\ palact.size > 0
  /\ palact.remap = "no"
  /\ palact.returned

ReserveCall == palact.op = "reserve"

\* C17: a reserve call either returns the start of a mapping that covers
\* the size bytes asked for, or ends the process; it never returns
\* MAP_FAILED and never a shorter region.
C17_ReserveReturnsRegionOrDies ==
  ReserveCall =>
    IF palact.returned
    THEN /\ palact.ret # MAP_FAILED
         /\ palact.ret \in Addrs
         /\ palact.size > 0
         /\ Range(palact.ret, palact.size) \subseteq BytesOf(mapped)
         /\ palstate = "run"
    ELSE palstate = "dead"

\* The OS refused the mapping and the process ended in reserve.
C17_Witness ==
  /\ ReserveCall
  /\ ~palact.returned
  /\ palstate = "dead"
  /\ palact.size > 0

====
